---------------------------- MODULE Spec2Model ----------------------------
(***************************************************************************)
(* A model of the block_drop game engine: the pieces (block_drop.py), the  *)
(* board (board.py) and the session (game.py).  Python's 0-based grid      *)
(* index grid[y][x] is grid[y + 1][x + 1] here; None is the string "None". *)
(***************************************************************************)
EXTENDS Integers, Sequences, FiniteSets, TLC

VARIABLES
    board,              \* TetrisGame.board: [grid, cleared_lines]
    piece_generator,    \* TetrisGame.piece_generator: [bag]
    current_piece,      \* TetrisGame.current_piece
    next_piece,         \* TetrisGame.next_piece
    score,              \* TetrisGame.score
    level,              \* TetrisGame.level
    lines_cleared,      \* TetrisGame.lines_cleared
    game_over,          \* TetrisGame.game_over
    paused,             \* TetrisGame.paused
    last_fall_time,     \* TetrisGame.last_fall_time
    fall_speed,         \* TetrisGame.fall_speed
    keys_pressed,       \* TetrisGame.keys_pressed
    key_repeat_timers,  \* TetrisGame.key_repeat_timers
    now,                \* pygame.time.get_ticks()
    pc,                 \* position in the loop of TetrisGame.run, or in a Board call
    ret,                \* the last Board call and the value it returned
    locks,              \* pieces locked since construction
    drawn_kinds,        \* the kinds a generator on its own has returned
    key_log             \* the held-key actions handle_input has triggered

vars == <<board, piece_generator, current_piece, next_piece, score, level,
          lines_cleared, game_over, paused, last_fall_time, fall_speed,
          keys_pressed, key_repeat_timers, now, pc, ret, locks, drawn_kinds,
          key_log>>

---------------------------------------------------------------------------
(* Bounds of the model.                                                    *)

\* The board of constants.py (10 x 20), scaled down.
BOARD_WIDTH == 5
BOARD_HEIGHT == 4
\* Pieces locked in one behaviour of Spec.
MaxLocks == 2
\* Steps of the clock in one behaviour of Spec.
MaxTicks == 1
\* How far outside the board the pieces handed to the Board calls reach.
Margin == 2
\* The highest level of a session a piece is locked in, in SpecLock.
MaxLevel == 2
\* The rows of the board of SpecWell.
WellHeight == 11
\* Pieces drawn from a generator in one behaviour of SpecGen.
MaxDraws == 15
\* Steps of the clock in one behaviour of SpecInput.
MaxKeyTicks == 10

(* Program constants (constants.py).                                       *)
INITIAL_FALL_SPEED == 500
MOVE_REPEAT_DELAY == 150
MOVE_REPEAT_INTERVAL == 50
SCORE_SINGLE == 100
SCORE_DOUBLE == 300
SCORE_TRIPLE == 500
SCORE_TETRIS == 800
SCORE_SOFT_DROP == 1
LINES_PER_LEVEL == 10

None == "None"

\* The log of a session that keeps none.
NoLog == [on |-> FALSE]

---------------------------------------------------------------------------
(* block_drop.py: BlockDrop                                                *)

PIECE_TYPES == <<"I", "O", "T", "S", "Z", "J", "L">>

SHAPES ==
    [k \in {"I", "O", "T", "S", "Z", "J", "L"} |->
       CASE k = "I" -> << << <<".",".",".",".">>, <<"I","I","I","I">>,
                             <<".",".",".",".">>, <<".",".",".",".">> >>,
                          << <<".",".","I",".">>, <<".",".","I",".">>,
                             <<".",".","I",".">>, <<".",".","I",".">> >> >>
         [] k = "O" -> << << <<"O","O">>, <<"O","O">> >> >>
         [] k = "T" -> << << <<".",".",".">>, <<"T","T","T">>, <<".","T",".">> >>,
                          << <<".",".",".">>, <<".","T",".">>, <<"T","T",".">>,
                             <<".","T",".">> >>,
                          << <<".",".",".">>, <<".","T",".">>, <<"T","T","T">>,
                             <<".",".",".">> >>,
                          << <<".",".",".">>, <<".","T",".">>, <<".","T","T">>,
                             <<".","T",".">> >> >>
         [] k = "S" -> << << <<".",".",".">>, <<".","S","S">>, <<"S","S",".">> >>,
                          << <<".",".",".">>, <<".","S",".">>, <<".","S","S">>,
                             <<".",".","S">> >> >>
         [] k = "Z" -> << << <<".",".",".">>, <<"Z","Z",".">>, <<".","Z","Z">> >>,
                          << <<".",".",".">>, <<".",".","Z">>, <<".","Z","Z">>,
                             <<".","Z",".">> >> >>
         [] k = "J" -> << << <<".",".",".">>, <<"J","J","J">>, <<".",".","J">> >>,
                          << <<".",".",".">>, <<".","J",".">>, <<".","J",".">>,
                             <<"J","J",".">> >>,
                          << <<".",".",".">>, <<"J",".",".">>, <<"J","J","J">>,
                             <<".",".",".">> >>,
                          << <<".",".",".">>, <<".","J","J">>, <<".","J",".">>,
                             <<".","J",".">> >> >>
         [] k = "L" -> << << <<".",".",".">>, <<"L","L","L">>, <<"L",".",".">> >>,
                          << <<".",".",".">>, <<"L","L",".">>, <<".","L",".">>,
                             <<".","L",".">> >>,
                          << <<".",".",".">>, <<".",".","L">>, <<"L","L","L">>,
                             <<".",".",".">> >>,
                          << <<".",".",".">>, <<".","L",".">>, <<".","L",".">>,
                             <<".","L","L">> >> >>]

\* BlockDrop.__init__
BlockDrop(piece_type, x, y) ==
    [piece_type |-> piece_type, x |-> x, y |-> y, rotation |-> 0]

\* The value of an Optional[BlockDrop] that holds no piece.
NoPiece == [piece_type |-> None, x |-> 0, y |-> 0, rotation |-> 0]

\* len(self.shapes)
NumShapes(piece) == Len(SHAPES[piece.piece_type])

\* BlockDrop.current_shape
current_shape(piece) ==
    SHAPES[piece.piece_type][(piece.rotation % NumShapes(piece)) + 1]

\* BlockDrop.get_cells: the cells as the set of <<x, y>> the list holds.
get_cells(piece) ==
    LET shape == current_shape(piece)
    IN  { <<piece.x + (col_idx - 1), piece.y + (row_idx - 1)>> :
            <<row_idx, col_idx>> \in
               { rc \in (1..Len(shape)) \X (1..4) :
                    /\ rc[2] <= Len(shape[rc[1]])
                    /\ shape[rc[1]][rc[2]] # "."
                    /\ shape[rc[1]][rc[2]] # " " } }

\* BlockDrop.rotate_clockwise
rotate_clockwise(piece) ==
    [piece EXCEPT !.rotation = (piece.rotation + 1) % NumShapes(piece)]

\* rotate_counterclockwise without the wrap to the last rotation state
rotate_counterclockwise_Unwrapped(piece) ==
    [piece EXCEPT !.rotation = piece.rotation - 1]

\* BlockDrop.rotate_counterclockwise
rotate_counterclockwise(piece) ==
    [piece EXCEPT !.rotation = (piece.rotation - 1) % NumShapes(piece)]

\* BlockDrop.move
move(piece, dx, dy) ==
    [piece EXCEPT !.x = piece.x + dx, !.y = piece.y + dy]

---------------------------------------------------------------------------
(* board.py: Board                                                         *)

EmptyRow == [x \in 1..BOARD_WIDTH |-> None]

\* Board.__init__
NewBoard ==
    [grid |-> [y \in 1..BOARD_HEIGHT |-> EmptyRow], cleared_lines |-> 0]

\* self.height of a board is the number of rows of its grid, which
\* clear_lines keeps: the methods below take it from the grid.

\* is_valid_position rejecting the cells above the board as well
is_valid_position_RejectsAbove(b, piece) ==
    \A c \in get_cells(piece) :
       /\ ~(c[1] < 0 \/ c[1] >= BOARD_WIDTH \/ c[2] >= Len(b.grid) \/ c[2] < 0)
       /\ b.grid[c[2] + 1][c[1] + 1] = None

\* Board.is_valid_position
is_valid_position(b, piece) ==
    \A c \in get_cells(piece) :
       /\ ~(c[1] < 0 \/ c[1] >= BOARD_WIDTH \/ c[2] >= Len(b.grid))
       /\ ~(c[2] >= 0 /\ b.grid[c[2] + 1][c[1] + 1] # None)

\* place_piece writing the piece without validating its position
place_piece_Unvalidated(b, piece) ==
    [ret |-> TRUE,
     board |-> [b EXCEPT !.grid =
         [y \in 1..Len(b.grid) |-> [x \in 1..BOARD_WIDTH |->
             IF <<x - 1, y - 1>> \in get_cells(piece) THEN piece.piece_type
             ELSE b.grid[y][x]]]]]

\* place_piece writing only the cells below row 0
place_piece_SkipsRowZero(b, piece) ==
    IF ~is_valid_position(b, piece)
    THEN [ret |-> FALSE, board |-> b]
    ELSE LET cells == get_cells(piece)
             written(x, y) ==
                /\ <<x, y>> \in cells
                /\ 0 < y /\ y < Len(b.grid) /\ 0 <= x /\ x < BOARD_WIDTH
         IN  [ret |-> TRUE,
              board |-> [b EXCEPT !.grid =
                  [y \in 1..Len(b.grid) |-> [x \in 1..BOARD_WIDTH |->
                      IF written(x - 1, y - 1) THEN piece.piece_type
                      ELSE b.grid[y][x]]]]]

\* Board.place_piece: [ret, board]
place_piece(b, piece) ==
    IF ~is_valid_position(b, piece)
    THEN [ret |-> FALSE, board |-> b]
    ELSE LET cells == get_cells(piece)
             written(x, y) ==
                /\ <<x, y>> \in cells
                /\ 0 <= y /\ y < Len(b.grid) /\ 0 <= x /\ x < BOARD_WIDTH
         IN  [ret |-> TRUE,
              board |-> [b EXCEPT !.grid =
                  [y \in 1..Len(b.grid) |-> [x \in 1..BOARD_WIDTH |->
                      IF written(x - 1, y - 1) THEN piece.piece_type
                      ELSE b.grid[y][x]]]]]

\* all(cell is not None for cell in row)
RowComplete(row) == \A x \in 1..Len(row) : row[x] # None

\* del grid[y] (y a Python index)
DelRow(grid, y) ==
    [i \in 1..(Len(grid) - 1) |-> IF i < y + 1 THEN grid[i] ELSE grid[i + 1]]

\* The second loop of Board.clear_lines over the indices still to process,
\* `todo` ascending and taken from its end (reversed(lines_to_clear)).
RECURSIVE RemoveLines(_, _)
RemoveLines(grid, todo) ==
    IF todo = << >> THEN grid
    ELSE LET y == todo[Len(todo)]
         IN  RemoveLines(<<EmptyRow>> \o DelRow(grid, y),
                         SubSeq(todo, 1, Len(todo) - 1))

\* The first loop of Board.clear_lines: the completed rows' Python indices,
\* ascending.
RECURSIVE LinesToClear(_, _)
LinesToClear(grid, y) ==
    IF y >= Len(grid) THEN << >>
    ELSE (IF RowComplete(grid[y + 1]) THEN <<y>> ELSE << >>)
         \o LinesToClear(grid, y + 1)

\* clear_lines leaving the cumulative counter as it is
clear_lines_KeepsCounter(b) ==
    LET lines_to_clear == LinesToClear(b.grid, 0)
    IN  [ret |-> Len(lines_to_clear),
         board |-> [grid |-> RemoveLines(b.grid, lines_to_clear),
                    cleared_lines |-> b.cleared_lines]]

\* Board.clear_lines: [ret, board]
clear_lines(b) ==
    LET lines_to_clear == LinesToClear(b.grid, 0)
    IN  [ret |-> Len(lines_to_clear),
         board |-> [grid |-> RemoveLines(b.grid, lines_to_clear),
                    cleared_lines |-> b.cleared_lines + Len(lines_to_clear)]]

\* Board.is_game_over
is_game_over(b) == \E x \in 1..BOARD_WIDTH : b.grid[1][x] # None

\* Board.get_drop_position: a copy of the piece descends while it is valid;
\* the row before the first invalid one is returned.
RECURSIVE DropFrom(_, _)
DropFrom(b, test_piece) ==
    IF is_valid_position(b, test_piece)
    THEN DropFrom(b, [test_piece EXCEPT !.y = test_piece.y + 1])
    ELSE test_piece.y - 1

get_drop_position(b, piece) == DropFrom(b, piece)

\* Board.get_shadow_cells
get_shadow_cells(b, piece) ==
    LET shadow_piece == [piece EXCEPT !.y = get_drop_position(b, piece)]
    IN  get_cells(shadow_piece)

\* Board.clear_board
clear_board(b) == NewBoard

---------------------------------------------------------------------------
(* block_drop.py: BlockDropGenerator.  The bag is the list the code keeps; *)
(* random.shuffle is an input: the order it leaves the bag in.             *)

PieceKinds == { PIECE_TYPES[i] : i \in 1..Len(PIECE_TYPES) }

\* Every order random.shuffle can leave the bag in.
AllShuffles ==
    { q \in [1..Len(PIECE_TYPES) -> PieceKinds] :
        \A i, j \in 1..Len(PIECE_TYPES) : i # j => q[i] # q[j] }

\* The orders random.shuffle leaves the bag in, in a behaviour of Spec; the
\* bag is popped from its end.
Shuffles ==
    { <<"S", "Z", "O", "T", "L", "J", "I">>,
      <<"Z", "S", "J", "L", "I", "O", "T">> }

\* BlockDropGenerator.refill_bag, random.shuffle leaving one of `shuffles`
refill_bag(gen, shuffles) == { [gen EXCEPT !.bag = q] : q \in shuffles }

\* BlockDropGenerator.__init__
NewGeneratorFrom(shuffles) == refill_bag([bag |-> << >>], shuffles)

\* get_next_piece refilling the bag while it still holds a piece
NextPieceFrom_RefillsEarly(gen, x, y, shuffles) ==
    LET filled == IF Len(gen.bag) <= 1 THEN refill_bag(gen, shuffles) ELSE { gen }
    IN  { [piece |-> BlockDrop(g.bag[Len(g.bag)], x, y),
           gen |-> [g EXCEPT !.bag = SubSeq(g.bag, 1, Len(g.bag) - 1)]] :
            g \in filled }

\* BlockDropGenerator.get_next_piece: the set of [piece, gen] it can return
NextPieceFrom(gen, x, y, shuffles) ==
    LET filled == IF gen.bag = << >> THEN refill_bag(gen, shuffles) ELSE { gen }
    IN  { [piece |-> BlockDrop(g.bag[Len(g.bag)], x, y),
           gen |-> [g EXCEPT !.bag = SubSeq(g.bag, 1, Len(g.bag) - 1)]] :
            g \in filled }

get_next_piece(gen, x, y) == NextPieceFrom(gen, x, y, Shuffles)

NewGenerator == NewGeneratorFrom(Shuffles)

---------------------------------------------------------------------------
(* game.py: TetrisGame.  An operation takes the session as the record s of *)
(* its fields; one that draws pieces returns the set of sessions it can    *)
(* leave, the others return [ret, self].                                   *)

self ==
    [board |-> board, piece_generator |-> piece_generator,
     current_piece |-> current_piece, next_piece |-> next_piece,
     score |-> score, level |-> level, lines_cleared |-> lines_cleared,
     game_over |-> game_over, paused |-> paused,
     last_fall_time |-> last_fall_time, fall_speed |-> fall_speed,
     keys_pressed |-> keys_pressed, key_repeat_timers |-> key_repeat_timers,
     ret |-> ret, locks |-> locks, key_log |-> key_log]

\* The spawn column: BOARD_WIDTH // 2 - 1
SpawnX == (BOARD_WIDTH \div 2) - 1

\* spawn_new_piece without the game-over check on the spawned piece
spawn_new_piece_Unchecked(s) ==
    LET promoted ==
           IF s.next_piece # NoPiece
           THEN { [s EXCEPT !.current_piece =
                      [s.next_piece EXCEPT !.x = SpawnX, !.y = 0]] }
           ELSE { [s EXCEPT !.current_piece = d.piece,
                            !.piece_generator = d.gen] :
                    d \in get_next_piece(s.piece_generator, SpawnX, 0) }
    IN  UNION { { [s1 EXCEPT !.next_piece = d.piece,
                             !.piece_generator = d.gen] :
                    d \in get_next_piece(s1.piece_generator, 4, 0) } :
                s1 \in promoted }

\* TetrisGame.spawn_new_piece
spawn_new_piece(s) ==
    LET promoted ==
           IF s.next_piece # NoPiece
           THEN { [s EXCEPT !.current_piece =
                      [s.next_piece EXCEPT !.x = SpawnX, !.y = 0]] }
           ELSE { [s EXCEPT !.current_piece = d.piece,
                            !.piece_generator = d.gen] :
                    d \in get_next_piece(s.piece_generator, SpawnX, 0) }
        drawn ==
           UNION { { [s1 EXCEPT !.next_piece = d.piece,
                                !.piece_generator = d.gen] :
                       d \in get_next_piece(s1.piece_generator, 4, 0) } :
                   s1 \in promoted }
    IN  { IF ~is_valid_position(s2.board, s2.current_piece)
          THEN [s2 EXCEPT !.game_over = TRUE]
          ELSE s2 : s2 \in drawn }

\* move_piece without the test of the paused flag
move_piece_IgnoresPaused(s, dx, dy) ==
    IF s.current_piece = NoPiece \/ s.game_over
    THEN [ret |-> FALSE, self |-> s]
    ELSE LET test_piece == move(s.current_piece, dx, dy)
         IN  IF is_valid_position(s.board, test_piece)
             THEN [ret |-> TRUE,
                   self |-> [s EXCEPT !.current_piece =
                                         move(s.current_piece, dx, dy)]]
             ELSE [ret |-> FALSE, self |-> s]

\* TetrisGame.move_piece: [ret, self]
move_piece(s, dx, dy) ==
    IF s.current_piece = NoPiece \/ s.game_over \/ s.paused
    THEN [ret |-> FALSE, self |-> s]
    ELSE LET test_piece == move(s.current_piece, dx, dy)
         IN  IF is_valid_position(s.board, test_piece)
             THEN [ret |-> TRUE,
                   self |-> [s EXCEPT !.current_piece =
                                         move(s.current_piece, dx, dy)]]
             ELSE [ret |-> FALSE, self |-> s]

\* The wall kicks tried to the right first
WallKicks_RightFirst == <<1, -1, 2, -2>>

\* The wall kicks of rotate_piece, in the order they are tried.
WallKicks == <<-1, 1, -2, 2>>

\* The loop over the wall kicks of TetrisGame.rotate_piece, from the i-th on.
RECURSIVE TryWallKicks(_, _, _)
TryWallKicks(s, rotated, i) ==
    IF i > Len(WallKicks) THEN [ret |-> FALSE, self |-> s]
    ELSE LET dx == WallKicks[i]
             test_piece == [rotated EXCEPT !.x = s.current_piece.x + dx]
         IN  IF is_valid_position(s.board, test_piece)
             THEN [ret |-> TRUE,
                   self |-> [s EXCEPT !.current_piece =
                               [rotated EXCEPT !.x = s.current_piece.x + dx]]]
             ELSE TryWallKicks(s, rotated, i + 1)

\* TetrisGame.rotate_piece: [ret, self]
rotate_piece(s, clockwise) ==
    IF s.current_piece = NoPiece \/ s.game_over \/ s.paused
    THEN [ret |-> FALSE, self |-> s]
    ELSE LET rotated == IF clockwise THEN rotate_clockwise(s.current_piece)
                        ELSE rotate_counterclockwise(s.current_piece)
         IN  IF is_valid_position(s.board, rotated)
             THEN [ret |-> TRUE, self |-> [s EXCEPT !.current_piece = rotated]]
             ELSE TryWallKicks(s, rotated, 1)

\* TetrisGame.update_score
update_score(s, n) ==
    LET base_score == CASE n = 1 -> SCORE_SINGLE
                        [] n = 2 -> SCORE_DOUBLE
                        [] n = 3 -> SCORE_TRIPLE
                        [] n = 4 -> SCORE_TETRIS
                        [] OTHER -> 0
    IN  [s EXCEPT !.score = s.score + base_score * s.level]

\* 9 ^ n and 10 ^ n
RECURSIVE Pow(_, _)
Pow(b, n) == IF n = 0 THEN 1 ELSE b * Pow(b, n - 1)

\* int(INITIAL_FALL_SPEED * (SPEED_INCREASE ** (level - 1))), SPEED_INCREASE
\* being 0.9
FallSpeedAt(lvl) ==
    (INITIAL_FALL_SPEED * Pow(9, lvl - 1)) \div Pow(10, lvl - 1)

\* update_level counting the levels from 0
update_level_FromZero(s) ==
    LET new_level == s.lines_cleared \div LINES_PER_LEVEL
    IN  IF new_level > s.level
        THEN [s EXCEPT !.level = new_level, !.fall_speed = FallSpeedAt(new_level)]
        ELSE s

\* TetrisGame.update_level
update_level(s) ==
    LET new_level == 1 + (s.lines_cleared \div LINES_PER_LEVEL)
    IN  IF new_level > s.level
        THEN [s EXCEPT !.level = new_level, !.fall_speed = FallSpeedAt(new_level)]
        ELSE s

\* lock_piece recomputing the level before it awards the score
lock_piece_LevelFirst(s) ==
    IF s.current_piece = NoPiece THEN {s}
    ELSE LET placed == place_piece(s.board, s.current_piece)
             cleared == clear_lines(placed.board)
             s1 == [s EXCEPT !.board = cleared.board,
                             !.ret = [op |-> "place_piece", val |-> placed.ret],
                             !.locks = s.locks + 1]
             s2 == IF cleared.ret > 0
                   THEN update_score(update_level(
                          [s1 EXCEPT !.lines_cleared =
                                        s1.lines_cleared + cleared.ret]),
                          cleared.ret)
                   ELSE s1
         IN  IF is_game_over(s2.board)
             THEN { [s2 EXCEPT !.game_over = TRUE] }
             ELSE spawn_new_piece(s2)

\* lock_piece testing the top row before the completed lines are cleared
lock_piece_TopRowFirst(s) ==
    IF s.current_piece = NoPiece THEN {s}
    ELSE LET placed == place_piece(s.board, s.current_piece)
             cleared == clear_lines(placed.board)
             s1 == [s EXCEPT !.board = cleared.board,
                             !.ret = [op |-> "place_piece", val |-> placed.ret],
                             !.locks = s.locks + 1]
             s2 == IF cleared.ret > 0
                   THEN update_level(update_score(
                          [s1 EXCEPT !.lines_cleared =
                                        s1.lines_cleared + cleared.ret],
                          cleared.ret))
                   ELSE s1
         IN  IF is_game_over(placed.board)
             THEN { [s2 EXCEPT !.game_over = TRUE] }
             ELSE spawn_new_piece(s2)

\* TetrisGame.lock_piece
lock_piece(s) ==
    IF s.current_piece = NoPiece THEN {s}
    ELSE LET placed == place_piece(s.board, s.current_piece)
             cleared == clear_lines(placed.board)
             s1 == [s EXCEPT !.board = cleared.board,
                             !.ret = [op |-> "place_piece", val |-> placed.ret],
                             !.locks = s.locks + 1]
             s2 == IF cleared.ret > 0
                   THEN update_level(update_score(
                          [s1 EXCEPT !.lines_cleared =
                                        s1.lines_cleared + cleared.ret],
                          cleared.ret))
                   ELSE s1
         IN  IF is_game_over(s2.board)
             THEN { [s2 EXCEPT !.game_over = TRUE] }
             ELSE spawn_new_piece(s2)

\* while self.move_piece(0, 1): drop_distance += 1
RECURSIVE DropAll(_, _)
DropAll(s, drop_distance) ==
    LET m == move_piece(s, 0, 1)
    IN  IF m.ret THEN DropAll(m.self, drop_distance + 1)
        ELSE [self |-> s, drop_distance |-> drop_distance]

\* hard_drop awarding one point per row.
hard_drop_ScoresDistance(s) ==
    IF s.current_piece = NoPiece \/ s.game_over \/ s.paused THEN {s}
    ELSE LET d == DropAll(s, 0)
         IN  lock_piece([d.self EXCEPT !.score =
                                          d.self.score + d.drop_distance])

\* TetrisGame.hard_drop
hard_drop(s) ==
    IF s.current_piece = NoPiece \/ s.game_over \/ s.paused THEN {s}
    ELSE LET d == DropAll(s, 0)
         IN  lock_piece([d.self EXCEPT !.score =
                                          d.self.score + d.drop_distance * 2])

\* soft_drop awarding its point whether or not the piece has moved
soft_drop_ScoresAlways(s) ==
    LET m == move_piece(s, 0, 1)
    IN  [ret |-> m.ret,
         self |-> [m.self EXCEPT !.score = m.self.score + SCORE_SOFT_DROP]]

\* TetrisGame.soft_drop: [ret, self]
soft_drop(s) ==
    LET m == move_piece(s, 0, 1)
    IN  IF m.ret
        THEN [ret |-> TRUE,
              self |-> [m.self EXCEPT !.score = m.self.score + SCORE_SOFT_DROP]]
        ELSE [ret |-> FALSE, self |-> m.self]

\* The last two statements of __init__ and of restart_game:
\* self.spawn_new_piece(); self.next_piece = self.piece_generator.get_next_piece()
SpawnFirstPieces(s) ==
    UNION { { [s2 EXCEPT !.next_piece = d.piece, !.piece_generator = d.gen] :
                d \in get_next_piece(s2.piece_generator, 4, 0) } :
            s2 \in spawn_new_piece(s) }

\* restart_game leaving the paused flag as it is
restart_game_KeepsPaused(s) ==
    UNION { SpawnFirstPieces(
               [s EXCEPT !.board = clear_board(s.board), !.score = 0,
                         !.level = 1, !.lines_cleared = 0, !.game_over = FALSE,
                         !.fall_speed = INITIAL_FALL_SPEED,
                         !.piece_generator = gen]) : gen \in NewGenerator }

\* TetrisGame.restart_game
restart_game(s) ==
    UNION { SpawnFirstPieces(
               [s EXCEPT !.board = clear_board(s.board), !.score = 0,
                         !.level = 1, !.lines_cleared = 0, !.game_over = FALSE,
                         !.paused = FALSE, !.fall_speed = INITIAL_FALL_SPEED,
                         !.piece_generator = gen]) : gen \in NewGenerator }

\* TetrisGame.__init__: the sessions construction can leave
NewGame ==
    UNION { SpawnFirstPieces(
               [board |-> NewBoard, piece_generator |-> gen,
                current_piece |-> NoPiece, next_piece |-> NoPiece,
                score |-> 0, level |-> 1, lines_cleared |-> 0,
                game_over |-> FALSE, paused |-> FALSE,
                last_fall_time |-> 0, fall_speed |-> INITIAL_FALL_SPEED,
                keys_pressed |-> {}, key_repeat_timers |-> << >>,
                ret |-> [op |-> "none", val |-> FALSE], locks |-> 0,
                key_log |-> NoLog]) :
            gen \in NewGenerator }

\* The keys handle_input reads.
MoveKeys == {"K_LEFT", "K_RIGHT", "K_DOWN"}
CommandKeys == {"K_UP", "K_x", "K_z", "K_SPACE", "K_p", "K_r"}

KeyDown(k) == [type |-> "KEYDOWN", key |-> k]
KeyUp(k) == [type |-> "KEYUP", key |-> k]

\* key_repeat_timers[key] = value
SetTimer(timers, key, value) ==
    [k \in (DOMAIN timers) \cup {key} |-> IF k = key THEN value ELSE timers[k]]

\* del key_repeat_timers[key]
DelTimer(timers, key) == [k \in (DOMAIN timers) \ {key} |-> timers[k]]

\* handle_event restarting on K_r whether or not the game is over
handle_event_RestartsAlways(s, event, current_time) ==
    IF event.type = "KEYDOWN"
    THEN LET s1 == [s EXCEPT
                      !.keys_pressed = s.keys_pressed \cup {event.key},
                      !.key_repeat_timers =
                          SetTimer(s.key_repeat_timers, event.key,
                                   current_time + MOVE_REPEAT_DELAY)]
         IN  CASE event.key = "K_UP" \/ event.key = "K_x" ->
                    { rotate_piece(s1, TRUE).self }
               [] event.key = "K_z" -> { rotate_piece(s1, FALSE).self }
               [] event.key = "K_SPACE" -> hard_drop(s1)
               [] event.key = "K_p" -> { [s1 EXCEPT !.paused = ~s1.paused] }
               [] event.key = "K_r" -> restart_game(s1)
               [] OTHER -> { s1 }
    ELSE IF event.type = "KEYUP"
    THEN { [s EXCEPT
              !.keys_pressed = s.keys_pressed \ {event.key},
              !.key_repeat_timers =
                  IF event.key \in DOMAIN s.key_repeat_timers
                  THEN DelTimer(s.key_repeat_timers, event.key)
                  ELSE s.key_repeat_timers] }
    ELSE { s }

\* The body of the event loop of TetrisGame.handle_input for one event
handle_event(s, event, current_time) ==
    IF event.type = "KEYDOWN"
    THEN LET s1 == [s EXCEPT
                      !.keys_pressed = s.keys_pressed \cup {event.key},
                      !.key_repeat_timers =
                          SetTimer(s.key_repeat_timers, event.key,
                                   current_time + MOVE_REPEAT_DELAY)]
         IN  CASE event.key = "K_UP" \/ event.key = "K_x" ->
                    { rotate_piece(s1, TRUE).self }
               [] event.key = "K_z" -> { rotate_piece(s1, FALSE).self }
               [] event.key = "K_SPACE" -> hard_drop(s1)
               [] event.key = "K_p" -> { [s1 EXCEPT !.paused = ~s1.paused] }
               [] event.key = "K_r" /\ s1.game_over -> restart_game(s1)
               [] OTHER -> { s1 }
    ELSE IF event.type = "KEYUP"
    THEN { [s EXCEPT
              !.keys_pressed = s.keys_pressed \ {event.key},
              !.key_repeat_timers =
                  IF event.key \in DOMAIN s.key_repeat_timers
                  THEN DelTimer(s.key_repeat_timers, event.key)
                  ELSE s.key_repeat_timers] }
    ELSE { s }

\* The event loop of TetrisGame.handle_input
RECURSIVE HandleEvents(_, _, _)
HandleEvents(S, events, current_time) ==
    IF events = << >> THEN S
    ELSE HandleEvents(
            UNION { handle_event(s, Head(events), current_time) : s \in S },
            Tail(events), current_time)

\* The session with the action of a held key noted in its log, if it keeps
\* one.
LogAction(s, key, current_time) ==
    IF ~s.key_log.on THEN s
    ELSE [s EXCEPT !.key_log.fired = Append(@, <<key, current_time>>)]

\* The held-key loop body waiting the first delay again after an action
RepeatKey_DelaysAgain(s, key, current_time) ==
    IF key \in DOMAIN s.key_repeat_timers
         /\ current_time >= s.key_repeat_timers[key]
    THEN LET s0 == LogAction(s, key, current_time)
             s1 == CASE key = "K_LEFT" -> move_piece(s0, -1, 0).self
                     [] key = "K_RIGHT" -> move_piece(s0, 1, 0).self
                     [] key = "K_DOWN" -> soft_drop(s0).self
                     [] OTHER -> s0
         IN  [s1 EXCEPT !.key_repeat_timers =
                 SetTimer(s1.key_repeat_timers, key,
                          current_time + MOVE_REPEAT_DELAY)]
    ELSE s

\* The body of the held-key loop of TetrisGame.handle_input for one key
RepeatKey(s, key, current_time) ==
    IF key \in DOMAIN s.key_repeat_timers
         /\ current_time >= s.key_repeat_timers[key]
    THEN LET s0 == LogAction(s, key, current_time)
             s1 == CASE key = "K_LEFT" -> move_piece(s0, -1, 0).self
                     [] key = "K_RIGHT" -> move_piece(s0, 1, 0).self
                     [] key = "K_DOWN" -> soft_drop(s0).self
                     [] OTHER -> s0
         IN  [s1 EXCEPT !.key_repeat_timers =
                 SetTimer(s1.key_repeat_timers, key,
                          current_time + MOVE_REPEAT_INTERVAL)]
    ELSE s

\* for key in list(self.keys_pressed): a set is iterated in an order the
\* program does not fix, so every order of the keys left is taken.
RECURSIVE RepeatKeys(_, _, _)
RepeatKeys(s, keys, current_time) ==
    IF keys = {} THEN { s }
    ELSE UNION { RepeatKeys(RepeatKey(s, k, current_time), keys \ {k},
                            current_time) : k \in keys }

\* The held-key part of TetrisGame.handle_input
ContinuousMovement(s, current_time) ==
    IF ~s.paused /\ ~s.game_over
    THEN RepeatKeys(s, s.keys_pressed, current_time)
    ELSE { s }

\* TetrisGame.handle_input
handle_input(s, events, current_time) ==
    UNION { ContinuousMovement(s1, current_time) :
            s1 \in HandleEvents({s}, events, current_time) }

\* update with the fall interval compared strictly
update_StrictInterval(s, current_time) ==
    IF s.game_over \/ s.paused THEN { s }
    ELSE IF current_time - s.last_fall_time > s.fall_speed
    THEN LET m == move_piece(s, 0, 1)
         IN  { [s1 EXCEPT !.last_fall_time = current_time] :
                 s1 \in (IF ~m.ret THEN lock_piece(s) ELSE { m.self }) }
    ELSE { s }

\* update leaving a piece that cannot descend where it is
update_NeverLocks(s, current_time) ==
    IF s.game_over \/ s.paused THEN { s }
    ELSE IF current_time - s.last_fall_time >= s.fall_speed
    THEN LET m == move_piece(s, 0, 1)
         IN  IF m.ret THEN { [m.self EXCEPT !.last_fall_time = current_time] }
             ELSE { s }
    ELSE { s }

\* TetrisGame.update
update(s, current_time) ==
    IF s.game_over \/ s.paused THEN { s }
    ELSE IF current_time - s.last_fall_time >= s.fall_speed
    THEN LET m == move_piece(s, 0, 1)
         IN  { [s1 EXCEPT !.last_fall_time = current_time] :
                 s1 \in (IF ~m.ret THEN lock_piece(s) ELSE { m.self }) }
    ELSE { s }

---------------------------------------------------------------------------
(* The program: TetrisGame.run calls handle_input and update in turn, the  *)
(* clock advancing between the calls.                                      *)

\* The session the step leaves becomes the state.
Becomes(s) ==
    /\ board' = s.board
    /\ piece_generator' = s.piece_generator
    /\ current_piece' = s.current_piece
    /\ next_piece' = s.next_piece
    /\ score' = s.score
    /\ level' = s.level
    /\ lines_cleared' = s.lines_cleared
    /\ game_over' = s.game_over
    /\ paused' = s.paused
    /\ last_fall_time' = s.last_fall_time
    /\ fall_speed' = s.fall_speed
    /\ keys_pressed' = s.keys_pressed
    /\ key_repeat_timers' = s.key_repeat_timers
    /\ ret' = s.ret
    /\ locks' = s.locks
    /\ key_log' = s.key_log

\* The batches of events the player sends in one frame: a command key
\* pressed and released, a movement key pressed while no other is held, the
\* held key released, or nothing.
EventBatches ==
    { << >> }
    \cup { <<KeyDown(k), KeyUp(k)>> : k \in CommandKeys }
    \cup { <<KeyDown(k)>> : k \in { m \in MoveKeys : keys_pressed = {} } }
    \cup { <<KeyUp(k)>> : k \in keys_pressed }

\* The clock of Spec advances a fall interval at a time.
ClockStep == INITIAL_FALL_SPEED

Init ==
    /\ \E s \in NewGame : /\ board = s.board
                          /\ piece_generator = s.piece_generator
                          /\ current_piece = s.current_piece
                          /\ next_piece = s.next_piece
                          /\ score = s.score
                          /\ level = s.level
                          /\ lines_cleared = s.lines_cleared
                          /\ game_over = s.game_over
                          /\ paused = s.paused
                          /\ last_fall_time = s.last_fall_time
                          /\ fall_speed = s.fall_speed
                          /\ keys_pressed = s.keys_pressed
                          /\ key_repeat_timers = s.key_repeat_timers
                          /\ ret = s.ret
                          /\ locks = s.locks
                          /\ key_log = s.key_log
    /\ now = 0
    /\ pc = "handle_input"
    /\ drawn_kinds = << >>

\* pygame's clock between two calls of get_ticks
Tick ==
    /\ now + ClockStep <= MaxTicks * ClockStep
    /\ now' = now + ClockStep
    /\ UNCHANGED <<board, piece_generator, current_piece, next_piece, score,
                   level, lines_cleared, game_over, paused, last_fall_time,
                   fall_speed, keys_pressed, key_repeat_timers, pc, ret, locks,
                   drawn_kinds, key_log>>

\* self.handle_input(events) in TetrisGame.run
HandleInput ==
    /\ pc = "handle_input"
    /\ \E events \in EventBatches :
         \E s \in handle_input(self, events, now) :
            /\ s.locks <= MaxLocks
            /\ Becomes(s)
    /\ pc' = "update"
    /\ UNCHANGED <<now, drawn_kinds>>

\* self.update() in TetrisGame.run
Update ==
    /\ pc = "update"
    /\ \E s \in update(self, now) :
          /\ s.locks <= MaxLocks
          /\ Becomes(s)
    /\ pc' = "handle_input"
    /\ UNCHANGED <<now, drawn_kinds>>

Next == Tick \/ HandleInput \/ Update

Spec == Init /\ [][Next]_vars

---------------------------------------------------------------------------
(* The Board on its own: a board of any content, and one call on it.       *)

\* The rows the boards of SpecBoard are made of: empty, completed, and two
\* that are partly occupied.
RowPatterns ==
    { EmptyRow,
      [x \in 1..BOARD_WIDTH |-> "I"],
      [x \in 1..BOARD_WIDTH |-> IF x = 1 THEN "J" ELSE None],
      [x \in 1..BOARD_WIDTH |-> IF x = BOARD_WIDTH THEN None ELSE "L"] }

\* The pieces handed to the Board calls: every kind and rotation, at the
\* positions on the board and up to Margin outside it.
ProbePieces ==
    { p \in [piece_type : PieceKinds,
             x : (0 - Margin)..(BOARD_WIDTH - 1 + Margin),
             y : (0 - Margin)..(BOARD_HEIGHT - 1 + Margin),
             rotation : 0..3] :
        p.rotation < Len(SHAPES[p.piece_type]) }

InitBoard ==
    /\ board \in [grid : [1..BOARD_HEIGHT -> RowPatterns], cleared_lines : {0}]
    /\ piece_generator = [bag |-> << >>]
    /\ current_piece = NoPiece
    /\ next_piece = NoPiece
    /\ score = 0
    /\ level = 1
    /\ lines_cleared = 0
    /\ game_over = FALSE
    /\ paused = FALSE
    /\ last_fall_time = 0
    /\ fall_speed = INITIAL_FALL_SPEED
    /\ keys_pressed = {}
    /\ key_repeat_timers = << >>
    /\ now = 0
    /\ pc = "board"
    /\ ret = [op |-> "none", val |-> FALSE]
    /\ locks = 0
    /\ drawn_kinds = << >>
    /\ key_log = NoLog

\* What a Board call leaves alone.
SessionUnchanged ==
    UNCHANGED <<piece_generator, current_piece, next_piece, score, level,
                lines_cleared, game_over, paused, last_fall_time, fall_speed,
                keys_pressed, key_repeat_timers, now, locks, drawn_kinds,
                key_log>>

\* board.is_valid_position(piece)
BoardIsValid ==
    /\ pc = "board"
    /\ \E val \in { is_valid_position(board, piece) : piece \in ProbePieces } :
          ret' = [op |-> "is_valid_position", val |-> val]
    /\ pc' = "done"
    /\ UNCHANGED board
    /\ SessionUnchanged

\* board.place_piece(piece)
BoardPlacePiece ==
    /\ pc = "board"
    /\ \E r \in { place_piece(board, piece) : piece \in ProbePieces } :
          /\ board' = r.board
          /\ ret' = [op |-> "place_piece", val |-> r.ret]
    /\ pc' = "done"
    /\ SessionUnchanged

\* board.clear_lines()
BoardClearLines ==
    /\ pc = "board"
    /\ LET r == clear_lines(board)
       IN  /\ board' = r.board
           /\ ret' = [op |-> "clear_lines", val |-> r.ret]
    /\ pc' = "done"
    /\ SessionUnchanged

NextBoard == BoardIsValid \/ BoardPlacePiece \/ BoardClearLines

SpecBoard == InitBoard /\ [][NextBoard]_vars

---------------------------------------------------------------------------
(* A lock on its own: a session in play at any level, its piece at rest on *)
(* a board of any content below the top row, one call of lock_piece, and   *)
(* the restart of the game if the lock has ended it.                       *)

\* The pieces that are in a valid position on b and cannot move down.
RestingPieces(b) ==
    { p \in ProbePieces :
        /\ p.y >= 0
        /\ is_valid_position(b, p)
        /\ ~is_valid_position(b, move(p, 0, 1)) }

InitLock ==
    /\ level \in 1..MaxLevel
    /\ lines_cleared \in { LINES_PER_LEVEL * (level - 1),
                           LINES_PER_LEVEL * level - 1 }
    /\ \E grid \in [1..BOARD_HEIGHT -> RowPatterns] :
          /\ grid[1] = EmptyRow
          /\ board = [grid |-> grid, cleared_lines |-> lines_cleared]
    /\ fall_speed = FallSpeedAt(level)
    /\ score = 0
    /\ current_piece \in RestingPieces(board)
    /\ \E q \in Shuffles :
          /\ next_piece = BlockDrop(q[Len(q)], 4, 0)
          /\ piece_generator = [bag |-> SubSeq(q, 1, Len(q) - 1)]
    /\ game_over = FALSE
    /\ paused = FALSE
    /\ last_fall_time = 0
    /\ keys_pressed = {}
    /\ key_repeat_timers = << >>
    /\ now = 0
    /\ pc = "lock"
    /\ ret = [op |-> "none", val |-> FALSE]
    /\ locks = 0
    /\ drawn_kinds = << >>
    /\ key_log = NoLog

\* self.lock_piece()
LockPiece ==
    /\ pc = "lock"
    /\ \E s \in lock_piece(self) : Becomes(s)
    /\ pc' = "done"
    /\ UNCHANGED <<now, drawn_kinds>>

\* The restart key pressed and released once the lock has ended the game
RestartAfterLock ==
    /\ pc = "done"
    /\ game_over
    /\ \E s \in handle_input(self, <<KeyDown("K_r"), KeyUp("K_r")>>, now) :
          Becomes(s)
    /\ pc' = "restarted"
    /\ UNCHANGED <<now, drawn_kinds>>

NextLock == LockPiece \/ RestartAfterLock

SpecLock == InitLock /\ [][NextLock]_vars

---------------------------------------------------------------------------
(* A session over a deep well: a board of WellHeight rows whose lower rows *)
(* are occupied in every column but the last, the first piece an I at the  *)
(* spawn position, and the player's rotations, moves and hard drops.       *)

\* A row occupied in every column but the last.
WellRow == [x \in 1..BOARD_WIDTH |-> IF x = BOARD_WIDTH THEN None ELSE "O"]

\* The board with its lowest `rows` rows being well rows.
WellBoard(rows) ==
    [grid |-> [y \in 1..WellHeight |->
                  IF y > WellHeight - rows THEN WellRow ELSE EmptyRow],
     cleared_lines |-> 0]

InitWell ==
    /\ \E rows \in 4..(WellHeight - 2) : board = WellBoard(rows)
    /\ current_piece = BlockDrop("I", SpawnX, 0)
    /\ \E q \in Shuffles :
          /\ next_piece = BlockDrop(q[Len(q)], 4, 0)
          /\ piece_generator = [bag |-> SubSeq(q, 1, Len(q) - 1)]
    /\ score = 0
    /\ level = 1
    /\ lines_cleared = 0
    /\ game_over = FALSE
    /\ paused = FALSE
    /\ last_fall_time = 0
    /\ fall_speed = INITIAL_FALL_SPEED
    /\ keys_pressed = {}
    /\ key_repeat_timers = << >>
    /\ now = 0
    /\ pc = "well"
    /\ ret = [op |-> "none", val |-> FALSE]
    /\ locks = 0
    /\ drawn_kinds = << >>
    /\ key_log = NoLog

\* self.rotate_piece(True)
WellRotate ==
    /\ pc = "well"
    /\ Becomes(rotate_piece(self, TRUE).self)
    /\ UNCHANGED <<now, pc, drawn_kinds>>

\* self.move_piece(dx, 0)
WellMove ==
    /\ pc = "well"
    /\ \E dx \in {-1, 1} : Becomes(move_piece(self, dx, 0).self)
    /\ UNCHANGED <<now, pc, drawn_kinds>>

\* self.hard_drop()
WellHardDrop ==
    /\ pc = "well"
    /\ locks < MaxLocks
    /\ \E s \in hard_drop(self) : Becomes(s)
    /\ UNCHANGED <<now, pc, drawn_kinds>>

NextWell == WellRotate \/ WellMove \/ WellHardDrop

SpecWell == InitWell /\ [][NextWell]_vars

---------------------------------------------------------------------------
(* The fall of one piece: a piece of any kind, valid at the spawn position *)
(* over a board of WellHeight rows, the player's moves, rotations and soft *)
(* drops, and the gravity steps of update, until the piece is locked.      *)

InitFall ==
    /\ \E rows \in 0..(WellHeight - 2) : board = WellBoard(rows)
    /\ \E k \in PieceKinds : current_piece = BlockDrop(k, SpawnX, 0)
    /\ is_valid_position(board, current_piece)
    /\ \E q \in Shuffles :
          /\ next_piece = BlockDrop(q[Len(q)], 4, 0)
          /\ piece_generator = [bag |-> SubSeq(q, 1, Len(q) - 1)]
    /\ score = 0
    /\ level = 1
    /\ lines_cleared = 0
    /\ game_over = FALSE
    /\ paused = FALSE
    /\ last_fall_time = 0
    /\ fall_speed = INITIAL_FALL_SPEED
    /\ keys_pressed = {}
    /\ key_repeat_timers = << >>
    /\ now = 0
    /\ pc = "fall"
    /\ ret = [op |-> "none", val |-> FALSE]
    /\ locks = 0
    /\ drawn_kinds = << >>
    /\ key_log = NoLog

\* The piece of the behaviour is still in play.
Falling == pc = "fall" /\ locks = 0 /\ ~game_over

\* self.rotate_piece(clockwise)
FallRotate ==
    /\ Falling
    /\ \E clockwise \in BOOLEAN : Becomes(rotate_piece(self, clockwise).self)
    /\ UNCHANGED <<now, pc, drawn_kinds>>

\* self.move_piece(dx, 0)
FallMove ==
    /\ Falling
    /\ \E dx \in {-1, 1} : Becomes(move_piece(self, dx, 0).self)
    /\ UNCHANGED <<now, pc, drawn_kinds>>

\* self.soft_drop()
FallSoftDrop ==
    /\ Falling
    /\ Becomes(soft_drop(self).self)
    /\ UNCHANGED <<now, pc, drawn_kinds>>

\* pygame's clock reaches the end of the fall interval.
ClockPassesInterval ==
    /\ Falling
    /\ now' = last_fall_time + fall_speed

\* self.update() once the clock has reached the end of the fall interval
FallGravity ==
    /\ ClockPassesInterval
    /\ \E s \in update(self, now') : Becomes(s)
    /\ UNCHANGED <<pc, drawn_kinds>>

NextFall == FallRotate \/ FallMove \/ FallSoftDrop \/ FallGravity

\* TetrisGame.run calls update in every frame and the clock advances: while
\* the piece is in play the clock keeps passing the end of the fall interval,
\* and the only step that advances the clock is FallGravity, which runs
\* update at that time.
SpecFall == InitFall /\ [][NextFall]_vars /\ WF_now(ClockPassesInterval)

---------------------------------------------------------------------------
(* The generator on its own: a fresh generator and draws from it, the      *)
(* kinds drawn recorded in `drawn_kinds`.                                  *)

\* q turned left by r places, and q reversed.
Rot(q, r) == [i \in 1..Len(q) |-> q[((i + r - 1) % Len(q)) + 1]]
Reverse(q) == [i \in 1..Len(q) |-> q[Len(q) + 1 - i]]

\* The orders random.shuffle leaves the bag in, in a behaviour of SpecGen:
\* PIECE_TYPES and its reverse, turned by any number of places.
GenShuffles ==
    { Rot(PIECE_TYPES, r) : r \in 0..(Len(PIECE_TYPES) - 1) }
    \cup { Rot(Reverse(PIECE_TYPES), r) : r \in 0..(Len(PIECE_TYPES) - 1) }

InitGen ==
    /\ piece_generator \in NewGeneratorFrom(GenShuffles)
    /\ drawn_kinds = << >>
    /\ board = NewBoard
    /\ current_piece = NoPiece
    /\ next_piece = NoPiece
    /\ score = 0
    /\ level = 1
    /\ lines_cleared = 0
    /\ game_over = FALSE
    /\ paused = FALSE
    /\ last_fall_time = 0
    /\ fall_speed = INITIAL_FALL_SPEED
    /\ keys_pressed = {}
    /\ key_repeat_timers = << >>
    /\ now = 0
    /\ pc = "gen"
    /\ ret = [op |-> "none", val |-> FALSE]
    /\ locks = 0
    /\ key_log = NoLog

\* piece_generator.get_next_piece()
GetNextPiece ==
    /\ pc = "gen"
    /\ Len(drawn_kinds) < MaxDraws
    /\ \E d \in NextPieceFrom(piece_generator, 4, 0, GenShuffles) :
          /\ piece_generator' = d.gen
          /\ drawn_kinds' = Append(drawn_kinds, d.piece.piece_type)
    /\ UNCHANGED <<board, current_piece, next_piece, score, level,
                   lines_cleared, game_over, paused, last_fall_time, fall_speed,
                   keys_pressed, key_repeat_timers, now, pc, ret, locks,
                   key_log>>

NextGen == GetNextPiece

SpecGen == InitGen /\ [][NextGen]_vars

---------------------------------------------------------------------------
(* The input on its own: a session from construction, a clock that         *)
(* advances half a repeat interval at a time, and at each time at most one *)
(* call of handle_input with a movement key pressed or released; no update *)
(* in between, so that only the keys move the piece.  key_log holds, for   *)
(* each held key, the time of its key-down and the times handle_input has  *)
(* run since, and the actions the held-key loop has triggered.             *)

KeyStep == MOVE_REPEAT_INTERVAL \div 2

\* The events of a frame of SpecInput: nothing, a movement key pressed while
\* at most one other is held, or a held key released.
InputBatches ==
    { << >> }
    \cup { <<KeyDown(k)>> : k \in { m \in MoveKeys \ keys_pressed :
                                       Cardinality(keys_pressed) < 2 } }
    \cup { <<KeyUp(k)>> : k \in keys_pressed }

\* The log once the events of a handle_input call at time t are noted: a
\* key that goes down starts its entry, a key that goes up loses it, and
\* every other held key has one more call at t.
NoteEvents(log, events, t) ==
    LET downs == { events[i].key : i \in { j \in 1..Len(events) :
                                            events[j].type = "KEYDOWN" } }
        ups == { events[i].key : i \in { j \in 1..Len(events) :
                                          events[j].type = "KEYUP" } }
        held == ((DOMAIN log.down) \cup downs) \ ups
    IN  [on |-> log.on,
         down |-> [k \in held |-> IF k \in downs THEN t ELSE log.down[k]],
         steps |-> [k \in held |-> IF k \in downs THEN <<t>>
                                   ELSE Append(log.steps[k], t)],
         fired |-> SelectSeq(log.fired,
                             LAMBDA f : f[1] \notin (downs \cup ups))]

InitInput ==
    /\ \E s \in NewGame : /\ board = s.board
                          /\ piece_generator = s.piece_generator
                          /\ current_piece = s.current_piece
                          /\ next_piece = s.next_piece
                          /\ score = s.score
                          /\ level = s.level
                          /\ lines_cleared = s.lines_cleared
                          /\ game_over = s.game_over
                          /\ paused = s.paused
                          /\ last_fall_time = s.last_fall_time
                          /\ fall_speed = s.fall_speed
                          /\ keys_pressed = s.keys_pressed
                          /\ key_repeat_timers = s.key_repeat_timers
                          /\ ret = s.ret
                          /\ locks = s.locks
    /\ key_log = [on |-> TRUE, down |-> << >>, steps |-> << >>, fired |-> << >>]
    /\ now = 0
    /\ pc = "frame"
    /\ drawn_kinds = << >>

\* pygame's clock between two frames
KeyTick ==
    /\ now + KeyStep <= MaxKeyTicks * KeyStep
    /\ now' = now + KeyStep
    /\ pc' = "frame"
    /\ UNCHANGED <<board, piece_generator, current_piece, next_piece, score,
                   level, lines_cleared, game_over, paused, last_fall_time,
                   fall_speed, keys_pressed, key_repeat_timers, ret, locks,
                   drawn_kinds, key_log>>

\* self.handle_input(events), the events noted in the log
FrameInput ==
    /\ pc = "frame"
    /\ \E events \in InputBatches :
         \E s \in handle_input(
                     [self EXCEPT !.key_log = NoteEvents(key_log, events, now)],
                     events, now) :
            Becomes(s)
    /\ pc' = "waiting"
    /\ UNCHANGED <<now, drawn_kinds>>

NextInput == KeyTick \/ FrameInput

SpecInput == InitInput /\ [][NextInput]_vars

---------------------------------------------------------------------------
(* A piece on its own: a piece of any kind as constructed at any position  *)
(* of the board, and rotations of it either way.                           *)

InitPiece ==
    /\ \E k \in PieceKinds :
          \E x \in 0..(BOARD_WIDTH - 1) :
             \E y \in 0..(BOARD_HEIGHT - 1) :
                current_piece = BlockDrop(k, x, y)
    /\ board = NewBoard
    /\ piece_generator = [bag |-> << >>]
    /\ next_piece = NoPiece
    /\ score = 0
    /\ level = 1
    /\ lines_cleared = 0
    /\ game_over = FALSE
    /\ paused = FALSE
    /\ last_fall_time = 0
    /\ fall_speed = INITIAL_FALL_SPEED
    /\ keys_pressed = {}
    /\ key_repeat_timers = << >>
    /\ now = 0
    /\ pc = "piece"
    /\ ret = [op |-> "none", val |-> FALSE]
    /\ locks = 0
    /\ drawn_kinds = << >>
    /\ key_log = NoLog

\* What a call on the piece leaves alone.
OnlyPieceChanges ==
    UNCHANGED <<board, piece_generator, next_piece, score, level,
                lines_cleared, game_over, paused, last_fall_time, fall_speed,
                keys_pressed, key_repeat_timers, now, pc, ret, locks,
                drawn_kinds, key_log>>

\* piece.rotate_clockwise()
PieceRotateClockwise ==
    /\ pc = "piece"
    /\ current_piece' = rotate_clockwise(current_piece)
    /\ OnlyPieceChanges

\* piece.rotate_counterclockwise()
PieceRotateCounterclockwise ==
    /\ pc = "piece"
    /\ current_piece' = rotate_counterclockwise(current_piece)
    /\ OnlyPieceChanges

NextPiece == PieceRotateClockwise \/ PieceRotateCounterclockwise

SpecPiece == InitPiece /\ [][NextPiece]_vars

---------------------------------------------------------------------------
(* The claims about the Board, under SpecBoard.                            *)

\* The rows of `grid` that are not completed, in their order.
KeptRows(grid) == SelectSeq(grid, LAMBDA row : ~RowComplete(row))

\* k empty rows on top of the rows of `grid` that are not completed.
Compacted(grid) ==
    LET kept == KeptRows(grid)
        k == Len(grid) - Len(kept)
    IN  [i \in 1..Len(grid) |-> IF i <= k THEN EmptyRow ELSE kept[i - k]]

\* C1: for every board content, clear_lines leaves as many empty rows on top
\* as rows were completed, followed by exactly the rows that were not
\* completed, in their order and with their content.
C1_ClearLinesCompacts ==
    pc = "board" => clear_lines(board).board.grid = Compacted(board.grid)

\* The absolute cells of a piece that is_valid_position accepts: inside the
\* columns, above the floor, and on no occupied cell of the board.
CellFree(b, c) ==
    /\ 0 <= c[1] /\ c[1] < BOARD_WIDTH
    /\ c[2] < BOARD_HEIGHT
    /\ (c[2] < 0 \/ b.grid[c[2] + 1][c[1] + 1] = None)

\* C9: is_valid_position is true exactly when every absolute cell of the
\* piece is inside the columns, above the floor and not on an occupied cell
\* (cells above row 0 are never rejected for that), and on an empty board
\* every kind is valid at the spawn position.
C9_IsValidPosition ==
    /\ pc = "board" =>
          \A piece \in ProbePieces :
             is_valid_position(board, piece)
                = (\A c \in get_cells(piece) : CellFree(board, c))
    /\ \A k \in PieceKinds :
          is_valid_position(NewBoard, BlockDrop(k, (BOARD_WIDTH \div 2) - 1, 0))

\* is_valid_position has been called on a board that holds blocks and has
\* accepted a piece.
C9_Witness ==
    /\ pc = "done"
    /\ ret = [op |-> "is_valid_position", val |-> TRUE]
    /\ \E y \in 1..BOARD_HEIGHT : board.grid[y] # EmptyRow
    /\ \E piece \in ProbePieces :
          /\ is_valid_position(board, piece)
          /\ \E c \in get_cells(piece) : c[2] < 0

\* C10: place_piece on an invalid position returns False and changes
\* nothing; on a valid one it returns True and writes the piece's kind into
\* its cells on the board, every other cell and the cleared-lines counter
\* unchanged, the cells above row 0 dropped.
C10_PlacePiece ==
    pc = "board" =>
       \A piece \in ProbePieces :
          LET r == place_piece(board, piece)
              cells == get_cells(piece)
              valid == \A c \in cells : CellFree(board, c)
          IN  IF ~valid
              THEN r.ret = FALSE /\ r.board = board
              ELSE /\ r.ret = TRUE
                   /\ r.board.cleared_lines = board.cleared_lines
                   /\ \A y \in 1..BOARD_HEIGHT : \A x \in 1..BOARD_WIDTH :
                         r.board.grid[y][x] =
                            IF <<x - 1, y - 1>> \in cells
                            THEN piece.piece_type
                            ELSE board.grid[y][x]

\* place_piece has written a piece onto a board that held blocks already.
C10_Witness ==
    /\ pc = "done"
    /\ ret = [op |-> "place_piece", val |-> TRUE]
    /\ \E y \in 1..BOARD_HEIGHT :
          \E x1, x2 \in 1..BOARD_WIDTH :
             /\ board.grid[y][x1] \in {"J", "L"}
             /\ board.grid[y][x2] \in {"O", "T", "S", "Z"}

---------------------------------------------------------------------------
\* C11: for every board and every piece, at any position, for which
\* place_piece succeeds, is_valid_position on the same cells right after it
\* returns False.
C11_PlacedIsInvalid ==
    pc = "board" =>
       \A piece \in ProbePieces :
          LET r == place_piece(board, piece)
          IN  r.ret => ~is_valid_position(r.board, piece)

\* C11 as amended: for every board and every piece with a cell on row 0 or
\* below for which place_piece succeeds, is_valid_position on the same cells
\* right after it returns False.
C11_PlacedOnBoardIsInvalid ==
    pc = "board" =>
       \A piece \in ProbePieces :
          LET r == place_piece(board, piece)
          IN  (r.ret /\ \E c \in get_cells(piece) : c[2] >= 0)
                 => ~is_valid_position(r.board, piece)

\* place_piece has written a piece that reaches above row 0, and the piece
\* is not valid on the board it left.
C11_Witness ==
    /\ pc = "done"
    /\ ret = [op |-> "place_piece", val |-> TRUE]
    /\ \E piece \in ProbePieces :
          /\ \E c \in get_cells(piece) : c[2] < 0
          /\ \E c \in get_cells(piece) : c[2] >= 0
          /\ \A c \in get_cells(piece) :
                c[2] >= 0 => /\ CellFree(NewBoard, c)
                             /\ board.grid[c[2] + 1][c[1] + 1] = piece.piece_type
          /\ ~is_valid_position(board, piece)

\* The number of rows of `grid` that are completely occupied.
CompletedRows(grid) ==
    Cardinality({ y \in 1..Len(grid) : \A x \in 1..BOARD_WIDTH : grid[y][x] # None })

\* C12: clear_lines returns the number of rows that were completely occupied
\* and adds it to the cumulative counter, whatever the counter held; when no
\* row is completed it returns 0 and leaves grid and counter unchanged.
C12_ClearLinesCount ==
    pc = "board" =>
       \A n \in 0..BOARD_HEIGHT :
          LET b == [board EXCEPT !.cleared_lines = n]
              r == clear_lines(b)
              k == CompletedRows(b.grid)
          IN  /\ r.ret = k
              /\ r.board.cleared_lines = n + k
              /\ k = 0 => (r.ret = 0 /\ r.board = b)

\* clear_lines has returned a count above one, which the counter holds.
C12_Witness ==
    /\ pc = "done"
    /\ ret.op = "clear_lines"
    /\ ret.val > 1
    /\ board.cleared_lines = ret.val

(* The claims about the session, under Spec.                               *)

\* The session is Active: neither paused nor over.
Active == ~game_over /\ ~paused

\* C2: while the game is not over a current piece exists and is in a valid
\* position, and every place_piece that lock_piece made returned True.
C2_CurrentPieceValid ==
    /\ ~game_over =>
          /\ current_piece # NoPiece
          /\ \A c \in get_cells(current_piece) : CellFree(board, c)
    /\ ret.op = "place_piece" => ret.val = TRUE

\* A second piece has been locked and the piece spawned after it is in play.
C2_Witness ==
    /\ locks = 2
    /\ ~game_over
    /\ ret = [op |-> "place_piece", val |-> TRUE]
    /\ current_piece.y > 0

\* The fields of the session that C3 names.
PlayFields(s) ==
    <<s.board.grid, s.current_piece, s.next_piece, s.score, s.level,
      s.lines_cleared>>

\* C3: while the session is paused or over, move_piece, rotate_piece,
\* soft_drop, hard_drop, the held-key repeat and update leave the grid, the
\* current piece, the next piece, score, level and lines cleared unchanged,
\* and those that return a value return False.
C3_RejectedWhenNotActive ==
    (paused \/ game_over) =>
       /\ \A dx, dy \in -1..1 :
             /\ move_piece(self, dx, dy).ret = FALSE
             /\ PlayFields(move_piece(self, dx, dy).self) = PlayFields(self)
       /\ \A clockwise \in BOOLEAN :
             /\ rotate_piece(self, clockwise).ret = FALSE
             /\ PlayFields(rotate_piece(self, clockwise).self) = PlayFields(self)
       /\ soft_drop(self).ret = FALSE
       /\ PlayFields(soft_drop(self).self) = PlayFields(self)
       /\ \A s \in hard_drop(self) : PlayFields(s) = PlayFields(self)
       /\ \A t \in {now, now + fall_speed} :
             /\ \A s \in ContinuousMovement(self, t) :
                   PlayFields(s) = PlayFields(self)
             /\ \A s \in update(self, t) : PlayFields(s) = PlayFields(self)

\* The session is paused with a movement key held whose repeat is due, a
\* gravity step due, and room for the piece to move down.
C3_Witness ==
    /\ paused
    /\ ~game_over
    /\ pc = "handle_input"
    /\ \E k \in keys_pressed : k \in MoveKeys /\ now >= key_repeat_timers[k]
    /\ now - last_fall_time >= fall_speed
    /\ is_valid_position(board, move(current_piece, 0, 1))

\* The events of a batch.
EventsOf(events) == { events[i] : i \in 1..Len(events) }

\* C4: the game-over flag, once set, stays set until a restart command is
\* processed, and in a session that is not over the restart key changes
\* nothing of the game.
C4_GameOverUntilRestart ==
    /\ [][ (game_over /\ ~game_over') =>
              \E events \in EventBatches :
                 /\ KeyDown("K_r") \in EventsOf(events)
                 /\ self' \in handle_input(self, events, now) ]_vars
    /\ [](~game_over =>
             \A s \in handle_event(self, KeyDown("K_r"), now) :
                /\ PlayFields(s) = PlayFields(self)
                /\ s.board = board
                /\ s.piece_generator = piece_generator
                /\ s.game_over = game_over
                /\ s.paused = paused
                /\ s.fall_speed = fall_speed
                /\ s.last_fall_time = last_fall_time)

\* A session that was over has been restarted: pieces have been locked, and
\* the board is empty again with the game not over.
C4_Witness ==
    /\ locks > 0
    /\ ~game_over
    /\ board = NewBoard
    /\ score = 0

\* C5: the paused flag and the game-over flag are never both set, and a
\* pause toggle received in a session that is over leaves the paused flag
\* unchanged.
C5_ThreeStates ==
    /\ ~(paused /\ game_over)
    /\ game_over =>
          \A s \in handle_event(self, KeyDown("K_p"), now) : s.paused = paused

TwoDrawn ==
    \E q \in Shuffles :
       /\ piece_generator.bag = SubSeq(q, 1, Len(q) - 2)
       /\ current_piece.piece_type = q[Len(q)]
       /\ next_piece.piece_type = q[Len(q) - 1]

\* C7: at construction and at every restart exactly two pieces are drawn from
\* the fresh generator, the first the current piece and the second the next
\* piece; no drawn piece is discarded and none is carried over.
C7_TwoPiecesDrawn ==
    /\ [](locks = 0 => TwoDrawn)
    /\ [][ (game_over /\ ~game_over') => TwoDrawn' ]_vars

\* The rotated piece of a rotation, and the offsets of C8 in their order.
Rotated(piece, clockwise) ==
    [piece EXCEPT !.rotation =
        (piece.rotation + (IF clockwise THEN 1 ELSE -1))
           % Len(SHAPES[piece.piece_type])]
KickOrder == <<0, -1, 1, -2, 2>>
FitsAt(piece, dx) ==
    \A c \in get_cells([piece EXCEPT !.x = piece.x + dx]) : CellFree(board, c)

\* C8: rotate_piece in Active commits the rotation with the first of the
\* offsets 0, -1, +1, -2, +2 at which the rotated piece is valid (x shifted
\* by that offset, y unchanged) and returns True; if there is none the piece
\* is unchanged and it returns False; board and score are unchanged.
C8_RotateWallKick ==
    Active =>
       \A clockwise \in BOOLEAN :
          LET r == rotate_piece(self, clockwise)
              rotated == Rotated(current_piece, clockwise)
              fits == { i \in 1..Len(KickOrder) : FitsAt(rotated, KickOrder[i]) }
          IN  /\ r.self.board = board
              /\ r.self.score = score
              /\ IF fits = {}
                 THEN r.ret = FALSE /\ r.self.current_piece = current_piece
                 ELSE LET first == CHOOSE i \in fits : \A j \in fits : i <= j
                      IN  /\ r.ret = TRUE
                          /\ r.self.current_piece =
                                [rotated EXCEPT !.x = current_piece.x
                                                       + KickOrder[first]]

\* In Active the rotated piece does not fit at its place nor one column to
\* the left, and fits one column to the right.
C8_Witness ==
    /\ Active
    /\ \E clockwise \in BOOLEAN :
          LET rotated == Rotated(current_piece, clockwise)
          IN  /\ ~FitsAt(rotated, 0)
              /\ ~FitsAt(rotated, -1)
              /\ FitsAt(rotated, 1)
              /\ rotate_piece(self, clockwise).self.current_piece.x
                    = current_piece.x + 1

\* The current piece translated by (dx, dy).
Translated(dx, dy) ==
    [current_piece EXCEPT !.x = current_piece.x + dx, !.y = current_piece.y + dy]

\* C18: in Active, move_piece(dx, dy) returns True and moves the current
\* piece by exactly (dx, dy) if and only if the translated piece is in a
\* valid position, and otherwise returns False and leaves the piece; either
\* way nothing else of the session changes.  soft_drop does what
\* move_piece(0, 1) does and adds 1 to the score when that succeeds, nothing
\* when it fails.
C18_MovePiece ==
    Active =>
       /\ \A dx \in -1..1 : \A dy \in -1..1 :
             LET m == move_piece(self, dx, dy)
                 fits == \A c \in get_cells(Translated(dx, dy)) :
                            CellFree(board, c)
             IN  /\ m.ret = fits
                 /\ m.self = [self EXCEPT !.current_piece =
                                 IF fits THEN Translated(dx, dy)
                                 ELSE current_piece]
       /\ LET m == move_piece(self, 0, 1)
              d == soft_drop(self)
          IN  /\ d.ret = m.ret
              /\ d.self = [m.self EXCEPT !.score =
                              IF m.ret THEN score + 1 ELSE score]

\* The first piece has been dropped one row by a soft drop, which has added
\* its point; it rests on the floor, so that a further drop fails, and it
\* can move left.
C18_Witness ==
    /\ Active
    /\ locks = 0
    /\ score = 1
    /\ current_piece.y = 1
    /\ ~soft_drop(self).ret
    /\ move_piece(self, -1, 0).ret

\* The cells of the current piece that lie on an occupied cell of the board.
Overlap ==
    IF current_piece = NoPiece THEN {}
    ELSE { c \in get_cells(current_piece) :
              /\ c[1] \in 0..(BOARD_WIDTH - 1)
              /\ c[2] \in 0..(BOARD_HEIGHT - 1)
              /\ board.grid[c[2] + 1][c[1] + 1] # None }

\* C19: in every reachable state, GameOver included, the current piece (if
\* one exists) occupies no cell that is occupied on the board.
C19_NoPieceOnOccupiedCell == Overlap = {}

\* The scoring table: the base award of a lock that clears n lines.
Base(n) ==
    CASE n = 0 -> 0
      [] n = 1 -> 100
      [] n = 2 -> 300
      [] n = 3 -> 500
      [] n = 4 -> 800

\* The current piece fits dy rows below where it is.
FitsBelow(dy) == \A c \in get_cells(Translated(0, dy)) : CellFree(board, c)

\* The largest number of consecutive one-row descents of the current piece
\* that stay valid.
DropRows ==
    CHOOSE d \in 0..BOARD_HEIGHT :
       /\ \A i \in 1..d : FitsBelow(i)
       /\ ~FitsBelow(d + 1)

\* The grid with the kind of the current piece written to the given cells.
WrittenAt(cells) ==
    [y \in 1..BOARD_HEIGHT |->
       [x \in 1..BOARD_WIDTH |->
          IF <<x - 1, y - 1>> \in cells THEN current_piece.piece_type
          ELSE board.grid[y][x]]]

\* C20: hard_drop in Active moves the current piece straight down by d rows,
\* d the largest number of one-row descents that stay valid, adds 2*d to the
\* score and locks the piece in the same step: the cells written are the
\* cells get_shadow_cells reported before the drop, the resting row is
\* get_drop_position, x and rotation are unchanged.  The lock then clears
\* the completed rows, adds their award and spawns the next piece.
C20_HardDrop ==
    Active =>
       LET d == DropRows
           shadow == get_shadow_cells(board, current_piece)
           written == [board EXCEPT !.grid = WrittenAt(shadow)]
           n == CompletedRows(written.grid)
       IN  /\ get_drop_position(board, current_piece) = current_piece.y + d
           /\ shadow = get_cells(Translated(0, d))
           /\ \A c \in shadow :
                 /\ c[1] \in 0..(BOARD_WIDTH - 1)
                 /\ c[2] \in 0..(BOARD_HEIGHT - 1)
                 /\ board.grid[c[2] + 1][c[1] + 1] = None
           /\ hard_drop(self) # {}
           /\ \A h \in hard_drop(self) :
                 /\ h.locks = locks + 1
                 /\ h.ret = [op |-> "place_piece", val |-> TRUE]
                 /\ h.board.grid = clear_lines(written).board.grid
                 /\ h.score = score + 2 * d + Base(n) * level
                 /\ is_game_over(h.board) =>
                       h.game_over /\ h.current_piece = Translated(0, d)
                 /\ ~is_game_over(h.board) =>
                       h.current_piece = [next_piece EXCEPT !.x = SpawnX, !.y = 0]

\* The first piece, a flat I, has been dropped from the top to the floor in
\* one step for 2 points a row, the next piece is in play at the top and can
\* itself be dropped.
C20_Witness ==
    /\ Active
    /\ locks = 1
    /\ score = 2 * (BOARD_HEIGHT - 2)
    /\ \E x \in 1..(BOARD_WIDTH - 3) :
          \A i \in 0..3 : board.grid[BOARD_HEIGHT][x + i] = "I"
    /\ current_piece.y = 0
    /\ DropRows > 0

\* The times update is asked about: the clock, and the times around the end
\* of the fall interval.
GravityTimes ==
    { now,
      last_fall_time + fall_speed - 1,
      last_fall_time + fall_speed,
      last_fall_time + fall_speed + 1 }

\* C21: update in Active at time t, when t - last_fall_time >= fall_speed,
\* moves the current piece down exactly one row if it fits there and locks it
\* otherwise, and sets last_fall_time to t in both cases; before that it
\* changes nothing.  So gravity never moves a piece two rows and never locks
\* a piece that can still descend.
C21_GravityStep ==
    Active =>
       \A t \in GravityTimes :
          LET u == update(self, t)
          IN  IF t - last_fall_time < fall_speed
              THEN u = { self }
              ELSE IF FitsBelow(1)
              THEN u = { [self EXCEPT !.current_piece = Translated(0, 1),
                                      !.last_fall_time = t] }
              ELSE /\ u = { [s EXCEPT !.last_fall_time = t] : s \in lock_piece(self) }
                   /\ u # {}
                   /\ \A s \in u :
                         /\ s.locks = locks + 1
                         /\ \A c \in get_cells(current_piece) :
                               c[2] >= 0 =>
                                  s.ret = [op |-> "place_piece", val |-> TRUE]

\* Gravity has locked an upright I that stood on the floor at the spawn row:
\* the fall interval ended at the clock's time, the piece could not descend,
\* and its lock ended the game.
C21_Witness ==
    /\ game_over
    /\ locks = 1
    /\ score = 0
    /\ now = INITIAL_FALL_SPEED
    /\ last_fall_time = now
    /\ \E x \in 1..BOARD_WIDTH : \A y \in 1..BOARD_HEIGHT : board.grid[y][x] = "I"

\* A move attempt of the key: what the key's command does to the session.
MoveAttempt(s, k) ==
    CASE k = "K_LEFT" -> move_piece(s, -1, 0).self
      [] k = "K_RIGHT" -> move_piece(s, 1, 0).self
      [] k = "K_DOWN" -> soft_drop(s).self

\* C22: a key-down of move-left, move-right or soft-drop received in Active
\* causes one move attempt in the input step that processes it, whatever the
\* repeat timers hold, so a key pressed and released within one input step
\* has moved the piece once.
C22_KeyDownMovesOnce ==
    (Active /\ keys_pressed = {}) =>
       \A k \in MoveKeys :
          \A s \in handle_input(self, <<KeyDown(k), KeyUp(k)>>, now) :
             /\ s.current_piece = MoveAttempt(self, k).current_piece
             /\ s.score = MoveAttempt(self, k).score

---------------------------------------------------------------------------
(* The claims about a lock, under SpecLock.                                *)

\* The rows that are completed once the current piece is written to the
\* board.
LinesOfLock == CompletedRows(place_piece(board, current_piece).board.grid)

C14_LevelInvariant ==
    /\ [](/\ level = 1 + (lines_cleared \div 10)
          /\ lines_cleared = board.cleared_lines)
    /\ [][ \/ game_over /\ ~game_over'
           \/ /\ level' >= level
              /\ lines_cleared' >= lines_cleared
              /\ score' >= score ]_vars

\* A lock at level 1 has cleared the tenth line and raised the level.
C14_Witness ==
    /\ pc = "done"
    /\ level = 2
    /\ lines_cleared = 10
    /\ board.cleared_lines = 10
    /\ score > 0

\* C23: a lock on a board without a completed row leaves a board without a
\* completed row: every row the lock completes is removed by that lock, also
\* when it completes two or more.
C23_NoCompletedRowAfterLock ==
    (pc = "lock" /\ CompletedRows(board.grid) = 0) =>
       \A s \in lock_piece(self) : CompletedRows(s.board.grid) = 0

\* The next piece at the spawn position.
Spawned == [next_piece EXCEPT !.x = SpawnX, !.y = 0]

\* C25: while the game is not over the top row of the board is empty; a lock
\* ends the game exactly when, after its lines are cleared, the top row holds
\* a block or the piece spawned next is in an invalid position; and a lock
\* that clears a line leaves the top row empty.
C25_TopRow ==
    /\ [](~game_over => board.grid[1] = EmptyRow)
    /\ [][ pc = "lock" =>
             LET top_out == board'.grid[1] # EmptyRow
                 fits == \A c \in get_cells(Spawned) : CellFree(board', c)
             IN  /\ game_over' = (top_out \/ ~fits)
                 /\ ~top_out => current_piece' = Spawned
                 /\ LinesOfLock > 0 => ~top_out ]_vars

\* An upright I that reached the top row has been locked at the level the
\* session began with, its lowest row was completed and cleared, and the
\* game goes on with an empty top row.
C25_Witness ==
    /\ pc = "done"
    /\ ~game_over
    /\ score \in {100, 200}
    /\ board.grid[1] = EmptyRow
    /\ \E x \in 1..BOARD_WIDTH :
          /\ \A y \in 2..BOARD_HEIGHT : board.grid[y][x] = "I"
          /\ \A y \in 2..BOARD_HEIGHT : ~RowComplete(board.grid[y])

---------------------------------------------------------------------------
(* The claim about the lines of one lock, under SpecWell.                  *)

\* C24: a lock clears at most 4 lines, so update_score is given a number in
\* 0..4, and a lock that clears at least one line adds a positive award to
\* the score (over the 2 points a row of the drop that led to it).
C24_AtMostFourLines ==
    Active =>
       LET d == get_drop_position(board, current_piece) - current_piece.y
       IN  \A s \in hard_drop(self) :
              LET n == s.lines_cleared - lines_cleared
              IN  /\ n \in 0..4
                  /\ n > 0 => s.score > score + 2 * d

---------------------------------------------------------------------------
(* The claim about the fall of a piece, under SpecFall.                    *)

\* The piece of the behaviour has been locked: lock_piece has written it to
\* the board (its blocks are there unless its rows were cleared), and the
\* next piece is at the spawn position or the game is over.
Locked ==
    /\ locks = 1
    /\ ret = [op |-> "place_piece", val |-> TRUE]
    /\ \/ lines_cleared > 0
       \/ \A rows \in 0..WellHeight : board.grid # WellBoard(rows).grid
    /\ game_over \/ current_piece.y = 0

\* C26: with the game in play and the gravity steps of update being taken as
\* the clock passes each fall interval, the current piece is eventually
\* locked whatever moves, rotations and soft drops come in between: it is
\* written to the board, and the next piece is spawned or the game is over.
C26_EventuallyLocked == <>Locked

\* A piece has been locked by gravity after the player moved it, with two
\* soft drops behind it, in the fourth fall interval, and the game goes on.
C26_Witness ==
    /\ pc = "fall"
    /\ locks = 1
    /\ ~game_over
    /\ score = 2
    /\ now = 4 * INITIAL_FALL_SPEED
    /\ last_fall_time = now
    /\ current_piece = BlockDrop(current_piece.piece_type, SpawnX, 0)

---------------------------------------------------------------------------
(* The claims about the generator, under SpecGen.                          *)

\* The kinds of the sequence q, and how often kind k is in it.
KindsOf(q) == { q[i] : i \in 1..Len(q) }
CountOf(q, k) == Cardinality({ i \in 1..Len(q) : q[i] = k })

\* The kinds that n draws from the generator gen return (one outcome, were
\* the bag refilled on the way).
RECURSIVE DrawKinds(_, _)
DrawKinds(gen, n) ==
    IF n = 0 THEN << >>
    ELSE LET d == CHOOSE d \in NextPieceFrom(gen, 4, 0, GenShuffles) : TRUE
         IN  <<d.piece.piece_type>> \o DrawKinds(d.gen, n - 1)

\* The draws of the block that the last draw is in.
LastBlock ==
    IF drawn_kinds = << >> THEN << >>
    ELSE SubSeq(drawn_kinds, 7 * ((Len(drawn_kinds) - 1) \div 7) + 1,
                Len(drawn_kinds))

\* C15: draws 7k+1 .. 7k+7 hold each of the seven kinds once, the bag never
\* holds a kind twice and is refilled only when empty (the bag and the draws
\* of the current block share no kind and together hold all seven), no kind
\* is drawn more than twice in 8 consecutive draws, and seven draws from a
\* bag in any order whatever return each kind once.
C15_BagDraws ==
    /\ \A k \in 0..(Len(drawn_kinds) \div 7) :
          7 * k + 7 <= Len(drawn_kinds)
             => /\ KindsOf(SubSeq(drawn_kinds, 7 * k + 1, 7 * k + 7)) = PieceKinds
                /\ \A kind \in PieceKinds :
                      CountOf(SubSeq(drawn_kinds, 7 * k + 1, 7 * k + 7), kind) = 1
    /\ \A kind \in PieceKinds : CountOf(piece_generator.bag, kind) <= 1
    /\ pc = "gen" =>
          /\ KindsOf(piece_generator.bag) \cap KindsOf(LastBlock) = {}
          /\ KindsOf(piece_generator.bag) \cup KindsOf(LastBlock) = PieceKinds
    /\ \A i \in 1..Len(drawn_kinds) :
          i + 7 <= Len(drawn_kinds)
             => \A kind \in PieceKinds :
                   CountOf(SubSeq(drawn_kinds, i, i + 7), kind) <= 2
    /\ (pc = "gen" /\ drawn_kinds = << >>) =>
          \A q \in AllShuffles :
             /\ KindsOf(DrawKinds([bag |-> q], 7)) = PieceKinds
             /\ DrawKinds([bag |-> q], 7) = Reverse(q)

\* Fifteen pieces have been drawn, the bag refilled twice, and a kind has
\* come twice in a row.
C15_Witness ==
    /\ pc = "gen"
    /\ Len(drawn_kinds) = 15
    /\ Len(piece_generator.bag) = 6
    /\ drawn_kinds[7] = drawn_kinds[8]

---------------------------------------------------------------------------
(* The claims about the input, under SpecInput.                            *)

\* The times of the actions the log holds for key k.
FiredTimes(k) ==
    LET own == SelectSeq(key_log.fired, LAMBDA f : f[1] = k)
    IN  [i \in 1..Len(own) |-> own[i][2]]

\* The times of the actions a held key is to trigger in the calls of
\* handle_input at the times `steps`, the first action due at `due`: one in
\* the first call at or after `due`, the next one due 50 later.
RECURSIVE ExpectedActions(_, _)
ExpectedActions(due, steps) ==
    IF steps = << >> THEN << >>
    ELSE IF Head(steps) >= due
    THEN <<Head(steps)>> \o ExpectedActions(Head(steps) + 50, Tail(steps))
    ELSE ExpectedActions(due, Tail(steps))

\* C16: a movement key whose key-down is processed at T and which stays
\* held triggers no action before T + 150, one in the first call of
\* handle_input at or after T + 150, and after an action at t the next one
\* in the first call at or after t + 50, at most one in a call; once the
\* key is up it triggers none.
C16_HeldKeyRepeat ==
    key_log.on =>
       \A k \in MoveKeys :
          FiredTimes(k) =
             IF k \in DOMAIN key_log.down
             THEN ExpectedActions(key_log.down[k] + 150, key_log.steps[k])
             ELSE << >>

\* A key held from time 0 has had no call at 150, has triggered its first
\* action at 175, none in the call at 200, and the second at 225.
C16_Witness ==
    /\ key_log.on
    /\ \E k \in DOMAIN key_log.down :
          /\ key_log.down[k] = 0
          /\ FiredTimes(k) = <<175, 225>>
          /\ \E i \in 1..Len(key_log.steps[k]) : key_log.steps[k][i] = 200
          /\ \A i \in 1..Len(key_log.steps[k]) : key_log.steps[k][i] # 150

---------------------------------------------------------------------------
(* The claims about a piece, under SpecPiece.                              *)

\* The piece after n clockwise rotations.
RECURSIVE RotatedTimes(_, _)
RotatedTimes(piece, n) ==
    IF n = 0 THEN piece ELSE RotatedTimes(rotate_clockwise(piece), n - 1)

\* The number of rotation states of a kind, from the shape table.
StateCount(kind) ==
    CASE kind = "O" -> 1
      [] kind \in {"I", "S", "Z"} -> 2
      [] kind \in {"T", "J", "L"} -> 4

\* C17: after any sequence of rotations either way the rotation index is in
\* [0, number of rotation states of the kind), so current_shape is one of
\* the kind's shapes; a clockwise rotation undoes a counterclockwise one and
\* the other way round, as many clockwise rotations as the kind has states
\* restore the piece, and a rotation changes neither x, y nor the kind.
C17_RotationIndex ==
    pc = "piece" =>
       LET p == current_piece
           n == StateCount(p.piece_type)
           cw == rotate_clockwise(p)
           ccw == rotate_counterclockwise(p)
       IN  /\ 0 <= p.rotation /\ p.rotation < n
           /\ n = Len(SHAPES[p.piece_type])
           /\ current_shape(p) = SHAPES[p.piece_type][p.rotation + 1]
           /\ rotate_counterclockwise(cw) = p
           /\ rotate_clockwise(ccw) = p
           /\ RotatedTimes(p, n) = p
           /\ cw.x = p.x /\ cw.y = p.y /\ cw.piece_type = p.piece_type
           /\ ccw.x = p.x /\ ccw.y = p.y /\ ccw.piece_type = p.piece_type

\* A piece with four rotation states is in its last one, which a single
\* counterclockwise rotation of the piece as constructed leaves it in.
C17_Witness ==
    /\ pc = "piece"
    /\ current_piece.piece_type = "L"
    /\ current_piece.rotation = 3
    /\ rotate_counterclockwise(BlockDrop("L", current_piece.x, current_piece.y))
          = current_piece

===========================================================================
